---- MODULE Spec2Model ----
(***************************************************************************)
(* The turn/rules state machine of the snooker game (rsketch.js): pocket   *)
(* events, rest resolution, deferred timers (cue-ball respawn, turn        *)
(* switch, frame re-rack), rack resets, the shot controller and the shot   *)
(* recorder.  The rigid-body engine is an external collaborator: what it   *)
(* reports in one step (which bodies touched a pocket sensor, whether a    *)
(* ball is faster than the rest threshold, which ball left the table) is   *)
(* a nondeterministic input of the tick.                                   *)
(***************************************************************************)
EXTENDS Integers, Sequences, FiniteSets, TLC

(* ---------------- bounds of the model (not program constants) ---------- *)
MaxScore  == 5      \* scores and break are explored up to this value
MaxShots  == 1      \* rtotalShots is explored up to this value
MaxFrames == 1      \* rframesCompleted is explored up to this value
MaxTimers == 1      \* pending setTimeout callbacks explored at once
MaxRec    == 1      \* recorded frames explored per shot
MaxWhite  == 2      \* white balls explored in the registry at once
MaxGone   == 1      \* object balls explored as missing from a rack
MaxEvents == 1      \* ball/pocket pairs explored in one collisionStart event

(* ---------------- program constants ------------------------------------ *)
TABLE_WIDTH  == 800
TABLE_HEIGHT == 400
BALL_RADIUS  == 10
TriangleRows == 5
RandomReds   == 10
PracticeReds == 5

ObjectColors == {"red", "yellow", "green", "brown", "blue", "pink", "black"}
Colors       == ObjectColors \cup {"white"}
Players      == {1, 2}

VARIABLES
    rballs,                 \* registry: colour -> number of balls of it
    rcueBall,               \* "null" | "live" (in rballs) | "gone" (not in rballs)
    rscores, rcurrentPlayer, rballsPottedThisTurn, rcurrentBreak,
    rfoulCommitted, rframesCompleted, rtotalShots,
    rcurrentMode, risAiming, power, risShooting, risPlacingCueBall,
    rgameRulesMode, ruiActive,
    recLen,                 \* rlastShotRecording.length
    risRecording, risReplaying, rreplayFrameIndex,
    timers,                 \* pending setTimeout callbacks, in firing order
    rworld,                 \* "world" once setup() has stored the engine's world, else "undefined"
    moving,                 \* the engine: "idle", "rolling" (a body is above the rest threshold)
                            \* or "contact" (a new rack has a ball on a pocket sensor)
    hist                    \* history record (observations only, never read by the program)

vars == << rballs, rcueBall, rscores, rcurrentPlayer, rballsPottedThisTurn,
           rcurrentBreak, rfoulCommitted, rframesCompleted, rtotalShots,
           rcurrentMode, risAiming, power, risShooting, risPlacingCueBall,
           rgameRulesMode, ruiActive, recLen, risRecording, risReplaying,
           rreplayFrameIndex, timers, rworld, moving, hist >>

\* the globals of the program and the engine, without the history
globals == << rballs, rcueBall, rscores, rcurrentPlayer, rballsPottedThisTurn,
              rcurrentBreak, rfoulCommitted, rframesCompleted, rtotalShots,
              rcurrentMode, risAiming, power, risShooting, risPlacingCueBall,
              rgameRulesMode, ruiActive, recLen, risRecording, risReplaying,
              rreplayFrameIndex, timers, rworld, moving >>

(* ---------------- pure helpers ----------------------------------------- *)
Other(p) == IF p = 1 THEN 2 ELSE 1

\* the if-chain of the collision handler: every colour it does not name scores 1
Points(c) ==
    IF c = "yellow" THEN 2
    ELSE IF c = "green" THEN 3
    ELSE IF c = "brown" THEN 4
    ELSE IF c = "blue" THEN 5
    ELSE IF c = "pink" THEN 6
    ELSE IF c = "black" THEN 7
    ELSE 1

NoBalls == [c \in Colors |-> 0]

\* variant: the PRACTICE loop runs one time too many
Rack_sixReds(mode) ==
    IF mode = 1 THEN
        [c \in Colors |-> IF c = "red" THEN (TriangleRows * (TriangleRows + 1)) \div 2 ELSE 1]
    ELSE IF mode = 2 THEN
        [c \in Colors |-> IF c = "red" THEN RandomReds
                          ELSE IF c \in {"white", "blue", "black"} THEN 1 ELSE 0]
    ELSE
        [c \in Colors |-> IF c = "red" THEN PracticeReds + 1
                          ELSE IF c = "white" THEN 1 ELSE 0]

\* the balls rsetupBalls(mode) creates, by colour
Rack(mode) ==
    IF mode = 1 THEN
        [c \in Colors |-> IF c = "red" THEN (TriangleRows * (TriangleRows + 1)) \div 2 ELSE 1]
    ELSE IF mode = 2 THEN
        [c \in Colors |-> IF c = "red" THEN RandomReds
                          ELSE IF c \in {"white", "blue", "black"} THEN 1 ELSE 0]
    ELSE
        [c \in Colors |-> IF c = "red" THEN PracticeReds
                          ELSE IF c = "white" THEN 1 ELSE 0]

BallCount(b) ==                              \* rballs.length
    b["white"] + b["red"] + b["yellow"] + b["green"] + b["brown"]
      + b["blue"] + b["pink"] + b["black"]
ObjectCount(b) == BallCount(b) - b["white"]

\* white balls of the registry that rcueBall does not refer to
StaleWhites(s) == s.rballs["white"] - (IF s.rcueBall = "live" THEN 1 ELSE 0)

(* ---------------- history (observations, never read by the program) ----- *)
NoRes == [on |-> FALSE, case |-> "none", outcome |-> "NONE", switch |-> FALSE,
          player |-> 0, shooter |-> 0, mode |-> "NONE", potted |-> 0,
          cuePots |-> 0, oppGain |-> 0, brk |-> 0, fireBrk |-> 0,
          potSum |-> 0, framed |-> FALSE]

\* a rack reset: the frames-completed counter and rules mode it found, the mode
\* it was called with, where it put the cue ball, and the balls it created at
\* fixed positions, in the order of their creation
NoRack == [on |-> FALSE, frames |-> 0, rules |-> "NONE", mode |-> 0, x |-> 0, y |-> 0,
           balls |-> << >>]

\* a cue-ball respawn: where it put the cue ball
NoSpawn == [on |-> FALSE, x |-> 0, y |-> 0]

\* a replay request: whether rplayVisualReplay accepted it
NoReq == [on |-> FALSE, ok |-> FALSE]

\* a press: what it targeted
NoPress == [on |-> FALSE, ui |-> FALSE, onTable |-> FALSE, inD |-> FALSE]

\* a release: whether the cue was aiming when it came, and with what power
NoRelease == [on |-> FALSE, aiming |-> FALSE, power |-> 0]

\* a key press
NoKey == [on |-> FALSE]

NoHist == [shooter |-> 0,     \* active player when the shot in hand was fired (0: none since the rack)
           fireBrk |-> 0,     \* rcurrentBreak when that shot was fired
           oppGain |-> 0,     \* points the shooter's opponent gained since that shot was fired
           cuePots |-> 0,     \* cue-ball pocket events handled since that shot was fired
           potSum  |-> 0,     \* colour values of the object balls pocketed since the break was last reset
           switches |-> 0,    \* executions of the turn switch since that shot was fired
           resolved |-> 0,    \* rest resolutions run since that shot was fired
           stale |-> 0,       \* frames of the recording older than the last firing
           banked |-> 0,      \* since the rack: values of the object balls pocketed, and 4
                              \* for each cue-ball pot handled in STANDARD mode
           ev  |-> << >>,     \* the pocket events the last step handled
           res |-> NoRes,     \* the rest resolution the last step ran
           rack |-> NoRack,   \* the rack reset the last step ran
           spawn |-> NoSpawn, \* the cue-ball respawn the last step ran
           req |-> NoReq,         \* the replay request the last step handled
           press |-> NoPress,     \* the press the last step handled
           release |-> NoRelease, \* the release the last step handled
           key |-> NoKey,         \* the key press the last step handled
           tick |-> FALSE]        \* the last step was a tick of draw()

\* fixed colour values of the scoring table (white 0)
Value(c) ==
    CASE c = "red" -> 1 [] c = "yellow" -> 2 [] c = "green" -> 3
      [] c = "brown" -> 4 [] c = "blue" -> 5 [] c = "pink" -> 6
      [] c = "black" -> 7 [] OTHER -> 0

\* step-local observations are dropped at the start of every handler
Fresh(s) ==
    [s EXCEPT !.hist.ev = << >>, !.hist.res = NoRes,
              !.hist.rack = NoRack, !.hist.spawn = NoSpawn,
              !.hist.req = NoReq, !.hist.press = NoPress,
              !.hist.release = NoRelease, !.hist.key = NoKey,
              !.hist.tick = FALSE]

(* ---------------- the program state as one record ----------------------- *)
Cur == [ rballs |-> rballs, rcueBall |-> rcueBall, rscores |-> rscores,
         rcurrentPlayer |-> rcurrentPlayer,
         rballsPottedThisTurn |-> rballsPottedThisTurn,
         rcurrentBreak |-> rcurrentBreak, rfoulCommitted |-> rfoulCommitted,
         rframesCompleted |-> rframesCompleted, rtotalShots |-> rtotalShots,
         rcurrentMode |-> rcurrentMode, risAiming |-> risAiming, power |-> power,
         risShooting |-> risShooting, risPlacingCueBall |-> risPlacingCueBall,
         rgameRulesMode |-> rgameRulesMode, ruiActive |-> ruiActive,
         recLen |-> recLen, risRecording |-> risRecording,
         risReplaying |-> risReplaying, rreplayFrameIndex |-> rreplayFrameIndex,
         timers |-> timers, rworld |-> rworld, moving |-> moving, hist |-> hist ]

\* the history fields a specification keeps
Watched(E, h) == [f \in DOMAIN h |-> IF f \in E.watch THEN h[f] ELSE NoHist[f]]

Commit(E, s) ==
    /\ rballs' = s.rballs
    /\ rcueBall' = s.rcueBall
    /\ rscores' = s.rscores
    /\ rcurrentPlayer' = s.rcurrentPlayer
    /\ rballsPottedThisTurn' = s.rballsPottedThisTurn
    /\ rcurrentBreak' = s.rcurrentBreak
    /\ rfoulCommitted' = s.rfoulCommitted
    /\ rframesCompleted' = s.rframesCompleted
    /\ rtotalShots' = s.rtotalShots
    /\ rcurrentMode' = s.rcurrentMode
    /\ risAiming' = s.risAiming
    /\ power' = s.power
    /\ risShooting' = s.risShooting
    /\ risPlacingCueBall' = s.risPlacingCueBall
    /\ rgameRulesMode' = s.rgameRulesMode
    /\ ruiActive' = s.ruiActive
    /\ recLen' = s.recLen
    /\ risRecording' = s.risRecording
    /\ risReplaying' = s.risReplaying
    /\ rreplayFrameIndex' = s.rreplayFrameIndex
    /\ rworld' = s.rworld
    /\ timers' = s.timers
    /\ moving' = s.moving
    /\ hist' = Watched(E, s.hist)

(* ---------------- what a specification explores --------------------------- *)
\* keys: the keys pressed; kinds: the bodies the engine reports in pockets;
\* oob: the bodies it lets pass the bounds; ui: whether presses hit UI
\* surfaces; watch: the history fields that are kept; events: the pairs of one
\* collisionStart event; the rest bound counters
Base ==
    [keys |-> {"r"}, kinds |-> {"red", "cue", "white"},
     oob |-> {}, ui |-> FALSE, watch |-> {}, events |-> MaxEvents,
     gone |-> MaxGone, frames |-> MaxFrames, timers |-> MaxTimers,
     shots |-> MaxShots]

InBounds(E, s) ==
    /\ \A p \in Players : s.rscores[p] <= MaxScore
    /\ s.rcurrentBreak <= MaxScore
    /\ s.rtotalShots <= E.shots
    /\ s.rframesCompleted <= E.frames
    /\ Len(s.timers) <= E.timers
    /\ s.recLen <= MaxRec
    /\ s.rballs["white"] <= MaxWhite
    /\ ObjectCount(Rack(s.rcurrentMode)) - ObjectCount(s.rballs) <= E.gone

(* ---------------- timers ------------------------------------------------ *)
\* setTimeout(f, 1000) for "respawn" and "switch", setTimeout(f, 2000) for "rerack"
Schedule(s, kind) == [s EXCEPT !.timers = Append(@, kind)]

\* the callbacks that can be the next to run: the oldest one, or a 1000 ms
\* callback that only 2000 ms callbacks precede
Fireable(q) ==
    {i \in 1..Len(q) :
        \/ i = 1
        \/ q[i] # "rerack" /\ \A j \in 1..(i - 1) : q[j] = "rerack"}

Remove(q, i) == [j \in 1..(Len(q) - 1) |-> IF j < i THEN q[j] ELSE q[j + 1]]

(* ---------------- collisionStart handler, one ball/pocket pair ---------- *)
\* ev: an object colour, "cue" (the body rcueBall refers to), "white" (a white
\* ball rcueBall does not refer to) or "absent" (a body that is not in rballs)
EventKinds == ObjectColors \cup {"cue", "white", "absent"}

EventColor(ev) == IF ev \in {"cue", "white"} THEN "white" ELSE ev

InRegistry(s, ev) ==
    CASE ev = "absent" -> FALSE
      [] ev = "cue"    -> s.rcueBall = "live"
      [] ev = "white"  -> StaleWhites(s) > 0
      [] OTHER         -> s.rballs[ev] > 0

Obs(ev, s, t, threw) ==
    [kind |-> ev, player |-> s.rcurrentPlayer, mode |-> s.rgameRulesMode,
     selfGain |-> t.rscores[s.rcurrentPlayer] - s.rscores[s.rcurrentPlayer],
     oppGain |-> t.rscores[Other(s.rcurrentPlayer)] - s.rscores[Other(s.rcurrentPlayer)],
     brkGain |-> t.rcurrentBreak - s.rcurrentBreak,
     potGain |-> t.rballsPottedThisTurn - s.rballsPottedThisTurn,
     foul |-> t.rfoulCommitted,
     removed |-> BallCount(s.rballs) - BallCount(t.rballs),
     respawns |-> Len(SelectSeq(t.timers, LAMBDA k : k = "respawn"))
                    - Len(SelectSeq(s.timers, LAMBDA k : k = "respawn")),
     same |-> [t EXCEPT !.hist = NoHist] = [s EXCEPT !.hist = NoHist],
     threw |-> threw]

\* history after one handled pair: s before, t after
Observe(ev, s, t, threw) ==
    LET opp == Other(s.hist.shooter)
        gain == IF s.hist.shooter = 0 THEN 0 ELSE t.rscores[opp] - s.rscores[opp]
    IN [t EXCEPT !.hist.ev = Append(@, Obs(ev, s, t, threw)),
                 !.hist.oppGain = @ + gain,
                 !.hist.cuePots = IF ev = "cue" /\ InRegistry(s, ev) /\ s.risShooting /\ @ < 2
                                  THEN @ + 1 ELSE @,
                 !.hist.potSum = @ + (IF InRegistry(s, ev) THEN Value(EventColor(ev)) ELSE 0),
                 !.hist.banked = @ + (IF ~InRegistry(s, ev) THEN 0
                                      ELSE IF ev \in ObjectColors THEN Value(ev)
                                      ELSE IF ev = "cue" /\ s.rgameRulesMode = "STANDARD"
                                           THEN 4 ELSE 0)]

\* variant: the penalty is credited whatever the rules mode
FoulPenalty_anyMode(s) ==
    [s EXCEPT !.rscores[Other(s.rcurrentPlayer)] = @ + 4]

\* the penalty of a pocketed cue ball
FoulPenalty(s) ==
    IF s.rgameRulesMode = "STANDARD"
    THEN [s EXCEPT !.rscores[Other(s.rcurrentPlayer)] = @ + 4]
    ELSE s

\* the handler body; thrown is set when `rcueBall.body` is read with rcueBall null
\* PocketBody without the test of line 213: a body that findIndex did not
\* find is scored with the default value of line 242
PocketBody_unchecked(s, ev) ==
    IF ~InRegistry(s, ev)
    THEN [st |-> [s EXCEPT !.rballsPottedThisTurn = @ + 1,
                           !.rscores[s.rcurrentPlayer] = @ + 1,
                           !.rcurrentBreak = @ + 1],
          thrown |-> FALSE]
    ELSE
      LET c  == EventColor(ev)
          s1 == [s EXCEPT !.rballs[c] = @ - 1]
      IN IF s.rcueBall = "null" THEN [st |-> s1, thrown |-> TRUE]
         ELSE IF ev = "cue" THEN
           LET s2 == [s1 EXCEPT !.rfoulCommitted = TRUE]
               s3 == FoulPenalty(s2)
               s4 == [s3 EXCEPT !.rcueBall = "null"]
           IN [st |-> Schedule(s4, "respawn"), thrown |-> FALSE]
         ELSE
           [st |-> [s1 EXCEPT !.rballsPottedThisTurn = @ + 1,
                              !.rscores[s1.rcurrentPlayer] = @ + Points(c),
                              !.rcurrentBreak = @ + Points(c)],
            thrown |-> FALSE]

PocketBody(s, ev) ==
    IF ~InRegistry(s, ev) THEN [st |-> s, thrown |-> FALSE]
    ELSE
      LET c  == EventColor(ev)
          s1 == [s EXCEPT !.rballs[c] = @ - 1]            \* rballs.splice
      IN IF s.rcueBall = "null" THEN [st |-> s1, thrown |-> TRUE]
         ELSE IF ev = "cue" THEN
           LET s2 == [s1 EXCEPT !.rfoulCommitted = TRUE]
               s3 == FoulPenalty(s2)
               s4 == [s3 EXCEPT !.rcueBall = "null"]
           IN [st |-> Schedule(s4, "respawn"), thrown |-> FALSE]
         ELSE
           [st |-> [s1 EXCEPT !.rballsPottedThisTurn = @ + 1,
                              !.rscores[s1.rcurrentPlayer] = @ + Points(c),
                              !.rcurrentBreak = @ + Points(c)],
            thrown |-> FALSE]

PocketEvent(s, ev) ==
    LET r == PocketBody(s, ev)
    IN [st |-> Observe(ev, s, r.st, r.thrown), thrown |-> r.thrown]

\* the pairs of one collisionStart event, in order; the loop ends at a throw
RECURSIVE PocketEvents(_, _)
PocketEvents(s, evs) ==
    IF evs = << >> THEN [st |-> s, thrown |-> FALSE]
    ELSE LET r == PocketEvent(s, Head(evs))
         IN IF r.thrown THEN r ELSE PocketEvents(r.st, Tail(evs))

(* ---------------- rsetupBalls ------------------------------------------- *)
\* new Ball(TABLE_WIDTH * 0.2, TABLE_HEIGHT / 2, 'white')
RackCueSpot == [x |-> (TABLE_WIDTH * 2) \div 10, y |-> TABLE_HEIGHT \div 2]

\* new Ball(x, y, color)
Ball(x, y, c) == [x |-> x, y |-> y, color |-> c]

\* the row i and the place j of the k-th red of the triangle loops
RedRow(k) ==
    CHOOSE i \in 0..(TriangleRows - 1) :
        (i * (i + 1)) \div 2 < k /\ k <= ((i + 1) * (i + 2)) \div 2

RedPlace(k) == k - 1 - (RedRow(k) * (RedRow(k) + 1)) \div 2

\* startX = TABLE_WIDTH * 0.75, startY = TABLE_HEIGHT / 2
TriangleReds ==
    [k \in 1..((TriangleRows * (TriangleRows + 1)) \div 2) |->
        Ball((TABLE_WIDTH * 3) \div 4 + RedRow(k) * (BALL_RADIUS * 2 + 1),
             TABLE_HEIGHT \div 2 - RedRow(k) * BALL_RADIUS
                 + RedPlace(k) * BALL_RADIUS * 2,
             "red")]

TriangleColours ==
    << Ball((TABLE_WIDTH * 9) \div 10, TABLE_HEIGHT \div 2, "black"),
       Ball((TABLE_WIDTH * 3) \div 4 - BALL_RADIUS * 4, TABLE_HEIGHT \div 2, "pink"),
       Ball(TABLE_WIDTH \div 2, TABLE_HEIGHT \div 2, "blue"),
       Ball((TABLE_WIDTH * 2) \div 10, TABLE_HEIGHT \div 2 - 40, "green"),
       Ball((TABLE_WIDTH * 2) \div 10, TABLE_HEIGHT \div 2, "brown"),
       Ball((TABLE_WIDTH * 2) \div 10, TABLE_HEIGHT \div 2 + 40, "yellow") >>

\* the balls rsetupBalls(mode) creates at fixed positions: the cue ball, and
\* in mode 1 the triangle and the colours (modes 2 and 3 draw the rest at random)
FixedBalls(mode) ==
    << Ball(RackCueSpot.x, RackCueSpot.y, "white") >>
        \o (IF mode = 1 THEN TriangleReds \o TriangleColours ELSE << >>)

\* variant: the reset leaves the foul flag as it found it
rsetupBalls_keepFoul(s, mode, mv) ==
    [s EXCEPT !.rballs = Rack(mode),
              !.rscores = [p \in Players |-> 0],
              !.rcurrentPlayer = 1,
              !.rballsPottedThisTurn = 0,
              !.rcurrentBreak = 0,
              !.risShooting = FALSE,
              !.rtotalShots = 0,
              !.rcueBall = "live",
              !.risPlacingCueBall = FALSE,
              !.moving = mv,
              !.hist.shooter = 0, !.hist.fireBrk = 0, !.hist.oppGain = 0,
              !.hist.cuePots = 0, !.hist.potSum = 0, !.hist.switches = 0,
              !.hist.resolved = 0, !.hist.banked = 0,
              !.hist.rack = [on |-> TRUE, frames |-> s.rframesCompleted,
                             rules |-> s.rgameRulesMode, mode |-> mode,
                             x |-> RackCueSpot.x, y |-> RackCueSpot.y,
                             balls |-> FixedBalls(mode)]]

\* variant: the reset drops the pending callbacks
rsetupBalls_clearTimers(s, mode, mv) ==
    [s EXCEPT !.rballs = Rack(mode),
              !.rscores = [p \in Players |-> 0],
              !.rcurrentPlayer = 1,
              !.rballsPottedThisTurn = 0,
              !.rcurrentBreak = 0,
              !.rfoulCommitted = FALSE,
              !.risShooting = FALSE,
              !.rtotalShots = 0,
              !.rcueBall = "live",
              !.risPlacingCueBall = FALSE,
              !.moving = mv,
              !.timers = << >>,
              !.hist.shooter = 0, !.hist.fireBrk = 0, !.hist.oppGain = 0,
              !.hist.cuePots = 0, !.hist.potSum = 0, !.hist.switches = 0,
              !.hist.resolved = 0, !.hist.banked = 0,
              !.hist.rack = [on |-> TRUE, frames |-> s.rframesCompleted,
                             rules |-> s.rgameRulesMode, mode |-> mode,
                             x |-> RackCueSpot.x, y |-> RackCueSpot.y,
                             balls |-> FixedBalls(mode)]]

\* mv: what the engine finds in the new rack, "contact" when a ball was
\* created on a pocket sensor
rsetupBalls(s, mode, mv) ==
    IF s.rworld = "undefined"
    THEN \* World.remove / World.add throw on the undefined world
         IF BallCount(s.rballs) > 0 THEN s
         ELSE [s EXCEPT !.rballs = NoBalls,
                        !.rscores = [p \in Players |-> 0],
                        !.rcurrentPlayer = 1,
                        !.rballsPottedThisTurn = 0,
                        !.rcurrentBreak = 0,
                        !.rfoulCommitted = FALSE,
                        !.risShooting = FALSE,
                        !.rtotalShots = 0]
    ELSE
    [s EXCEPT !.rballs = Rack(mode),
              !.rscores = [p \in Players |-> 0],
              !.rcurrentPlayer = 1,
              !.rballsPottedThisTurn = 0,
              !.rcurrentBreak = 0,
              !.rfoulCommitted = FALSE,
              !.risShooting = FALSE,
              !.rtotalShots = 0,
              !.rcueBall = "live",
              !.risPlacingCueBall = FALSE,
              !.moving = mv,
              !.hist.shooter = 0, !.hist.fireBrk = 0, !.hist.oppGain = 0,
              !.hist.cuePots = 0, !.hist.potSum = 0, !.hist.switches = 0,
              !.hist.resolved = 0, !.hist.banked = 0,
              !.hist.rack = [on |-> TRUE, frames |-> s.rframesCompleted,
                             rules |-> s.rgameRulesMode, mode |-> mode,
                             x |-> RackCueSpot.x, y |-> RackCueSpot.y,
                             balls |-> FixedBalls(mode)]]

\* the racks whose balls can be created in contact with a pocket sensor:
\* mode 2 places blue and black at random(W/2, W), random(0, H)
RackContact(mode) == IF mode = 2 THEN {"idle", "contact"} ELSE {"idle"}

\* the colours mode 2 places at random
RandomColours == {"blue", "black"}

(* ---------------- rcheckTurnState --------------------------------------- *)
\* variant: the turn ends only on a foul
TurnEnds_foulOnly(s) == s.rfoulCommitted

\* the turn ends: nothing was potted, or a foul was committed
TurnEnds(s) == s.rballsPottedThisTurn = 0 \/ s.rfoulCommitted

\* variant: the resolution of a foul credits the penalty of the rules mode in force
rcheckTurnState_penalty(s, anyFast) ==
    IF ~s.risShooting THEN s
    ELSE
      LET isMoving == anyFast \/ s.rcueBall = "null" IN
      IF isMoving THEN s
      ELSE
        LET noKeep  == TurnEnds(s)
            outcome == IF noKeep
                       THEN (IF s.rfoulCommitted THEN "FOUL" ELSE "MISS")
                       ELSE "GOOD_POT"
            s1 == IF noKeep
                  THEN Schedule(IF s.rfoulCommitted THEN FoulPenalty(s) ELSE s, "switch")
                  ELSE s
            s2 == [s1 EXCEPT !.rballsPottedThisTurn = 0,
                             !.rfoulCommitted = FALSE,
                             !.risShooting = FALSE,
                             !.risRecording = FALSE]
            frame == BallCount(s2.rballs) = 1 /\ s2.rcueBall # "null"
            s3 == IF frame
                  THEN Schedule([s2 EXCEPT !.rframesCompleted = @ + 1], "rerack")
                  ELSE s2
        IN [s3 EXCEPT !.hist.resolved = IF @ < 2 THEN @ + 1 ELSE @,
                      !.hist.res =
               [on |-> TRUE,
                case |-> IF s.rfoulCommitted THEN "foul"
                         ELSE IF s.rballsPottedThisTurn = 0 THEN "nopot" ELSE "pot",
                outcome |-> outcome,
                switch |-> Len(s1.timers) = Len(s.timers) + 1
                             /\ s1.timers[Len(s1.timers)] = "switch",
                player |-> s3.rcurrentPlayer,
                shooter |-> s.hist.shooter,
                mode |-> s.rgameRulesMode,
                potted |-> s.rballsPottedThisTurn,
                cuePots |-> s.hist.cuePots,
                oppGain |-> s.hist.oppGain,
                brk |-> s3.rcurrentBreak,
                fireBrk |-> s.hist.fireBrk,
                potSum |-> s.hist.potSum,
                framed |-> frame]]

\* anyFast: some ball of rballs is faster than 0.05
rcheckTurnState(s, anyFast) ==
    IF ~s.risShooting THEN s
    ELSE
      LET isMoving == anyFast \/ s.rcueBall = "null" IN
      IF isMoving THEN s
      ELSE
        LET noKeep  == TurnEnds(s)
            outcome == IF noKeep
                       THEN (IF s.rfoulCommitted THEN "FOUL" ELSE "MISS")
                       ELSE "GOOD_POT"
            s1 == IF noKeep THEN Schedule(s, "switch") ELSE s
            s2 == [s1 EXCEPT !.rballsPottedThisTurn = 0,
                             !.rfoulCommitted = FALSE,
                             !.risShooting = FALSE,
                             !.risRecording = FALSE]
            frame == BallCount(s2.rballs) = 1 /\ s2.rcueBall # "null"
            s3 == IF frame
                  THEN Schedule([s2 EXCEPT !.rframesCompleted = @ + 1], "rerack")
                  ELSE s2
        IN [s3 EXCEPT !.hist.resolved = IF @ < 2 THEN @ + 1 ELSE @,
                      !.hist.res =
               [on |-> TRUE,
                case |-> IF s.rfoulCommitted THEN "foul"
                         ELSE IF s.rballsPottedThisTurn = 0 THEN "nopot" ELSE "pot",
                outcome |-> outcome,
                switch |-> Len(s1.timers) = Len(s.timers) + 1
                             /\ s1.timers[Len(s1.timers)] = "switch",
                player |-> s3.rcurrentPlayer,
                shooter |-> s.hist.shooter,
                mode |-> s.rgameRulesMode,
                potted |-> s.rballsPottedThisTurn,
                cuePots |-> s.hist.cuePots,
                oppGain |-> s.hist.oppGain,
                brk |-> s3.rcurrentBreak,
                fireBrk |-> s.hist.fireBrk,
                potSum |-> s.hist.potSum,
                framed |-> frame]]

(* ---------------- Cue ---------------------------------------------------- *)
maxPower == 30

\* constrain(map(d, 50, 300, 0, maxPower), 0, maxPower), d a multiple of 25
PowerOf(d) ==
    LET m == ((d - 50) * maxPower) \div (300 - 50)
    IN IF m < 0 THEN 0 ELSE IF m > maxPower THEN maxPower ELSE m

Dists == {25, 50, 300, 400}     \* pointer distances from the cue ball

NoPointer == -1                 \* rgetMouseOnTable() returned null

\* Cue.update: d is the pointer distance, NoPointer when the pointer is off the plane
CueUpdate(s, d) ==
    IF s.risPlacingCueBall \/ d = NoPointer THEN s
    ELSE IF s.risAiming THEN [s EXCEPT !.power = PowerOf(d)] ELSE s

\* variant: the shot is fired and the recording of the previous one is kept
Shoot_keepBuffer(s) ==
    IF ~s.risAiming THEN s
    ELSE
      LET s1 == [s EXCEPT !.risRecording = TRUE] IN
      IF s.rcueBall = "null" THEN s1
      ELSE [s1 EXCEPT !.moving = IF s.power > 0 /\ s.rcueBall = "live" THEN "rolling" ELSE @,
                      !.risAiming = FALSE,
                      !.power = 0,
                      !.risShooting = TRUE,
                      !.rtotalShots = @ + 1,
                      !.hist.shooter = s.rcurrentPlayer,
                      !.hist.stale = s1.recLen,
                      !.hist.fireBrk = s.rcurrentBreak,
                      !.hist.oppGain = 0,
                      !.hist.cuePots = 0,
                      !.hist.switches = 0,
                      !.hist.resolved = 0]

\* variant: the shot is fired and not counted
Shoot_noCount(s) ==
    IF ~s.risAiming THEN s
    ELSE
      LET s1 == [s EXCEPT !.recLen = 0, !.risRecording = TRUE] IN
      IF s.rcueBall = "null" THEN s1
      ELSE [s1 EXCEPT !.moving = IF s.power > 0 /\ s.rcueBall = "live" THEN "rolling" ELSE @,
                      !.risAiming = FALSE,
                      !.power = 0,
                      !.risShooting = TRUE,
                      !.hist.shooter = s.rcurrentPlayer,
                      !.hist.stale = s1.recLen,
                      !.hist.fireBrk = s.rcurrentBreak,
                      !.hist.oppGain = 0,
                      !.hist.cuePots = 0,
                      !.hist.switches = 0,
                      !.hist.resolved = 0]

\* Cue.shoot; Body.applyForce(rcueBall.body, ...) throws when rcueBall is null
Shoot(s) ==
    IF ~s.risAiming THEN s
    ELSE
      LET s1 == [s EXCEPT !.recLen = 0, !.risRecording = TRUE] IN
      IF s.rcueBall = "null" THEN s1
      ELSE [s1 EXCEPT !.moving = IF s.power > 0 /\ s.rcueBall = "live" THEN "rolling" ELSE @,
                      !.risAiming = FALSE,
                      !.power = 0,
                      !.risShooting = TRUE,
                      !.rtotalShots = @ + 1,
                      !.hist.shooter = s.rcurrentPlayer,
                      !.hist.stale = s1.recLen,
                      !.hist.fireBrk = s.rcurrentBreak,
                      !.hist.oppGain = 0,
                      !.hist.cuePots = 0,
                      !.hist.switches = 0,
                      !.hist.resolved = 0]

(* ---------------- replay -------------------------------------------------- *)
\* variant: the end of the recording is tested with > in place of >=
rupdatePlaybackIndex_late(s) ==
    IF s.rreplayFrameIndex > s.recLen
    THEN [s EXCEPT !.risReplaying = FALSE]
    ELSE [s EXCEPT !.rreplayFrameIndex = @ + 1]

rupdatePlaybackIndex(s) ==
    IF s.rreplayFrameIndex >= s.recLen
    THEN [s EXCEPT !.risReplaying = FALSE]
    ELSE [s EXCEPT !.rreplayFrameIndex = @ + 1]

\* variant: a request is accepted while a shot is in flight
rplayVisualReplay_inFlight(s) ==
    IF s.recLen = 0 THEN [s EXCEPT !.hist.req = [on |-> TRUE, ok |-> FALSE]]
    ELSE IF s.risReplaying
         THEN [s EXCEPT !.hist.req = [on |-> TRUE, ok |-> FALSE]]
    ELSE [s EXCEPT !.risReplaying = TRUE, !.rreplayFrameIndex = 0,
                   !.hist.req = [on |-> TRUE, ok |-> TRUE]]

rplayVisualReplay(s) ==
    IF s.recLen = 0 THEN [s EXCEPT !.hist.req = [on |-> TRUE, ok |-> FALSE]]
    ELSE IF s.risShooting \/ s.risReplaying
         THEN [s EXCEPT !.hist.req = [on |-> TRUE, ok |-> FALSE]]
    ELSE [s EXCEPT !.risReplaying = TRUE, !.rreplayFrameIndex = 0,
                   !.hist.req = [on |-> TRUE, ok |-> TRUE]]

rrecordFrame(s) == [s EXCEPT !.recLen = @ + 1]

(* ---------------- out-of-bounds sweep of draw() --------------------------- *)
\* b: the ball found beyond the bounds, or "none"
Sweep(s, b) ==
    IF b = "none" \/ ~InRegistry(s, b) THEN s
    ELSE IF b = "cue"
         THEN [s EXCEPT !.rballs["white"] = @ - 1, !.rcueBall = "gone"]
         ELSE [s EXCEPT !.rballs[EventColor(b)] = @ - 1]

(* ---------------- draw(): one tick ----------------------------------------- *)
AfterUpdate(s, d) ==
    IF s.rcueBall # "null" /\ ~s.risShooting /\ ~s.risReplaying
    THEN CueUpdate(s, d) ELSE s

\* evs: the pocket pairs the engine reports; anyFast: a ball is above the rest
\* threshold after the step; oob: a ball beyond the bounds; d: pointer distance
DrawStep(t0, evs, anyFast, oob, d) ==
    LET s0 == [t0 EXCEPT !.hist.tick = TRUE] IN
    IF ~s0.risReplaying THEN
        LET r == PocketEvents(s0, evs) IN
        IF r.thrown THEN r.st                    \* the exception leaves draw()
        ELSE
          LET s1 == rcheckTurnState(
                        [r.st EXCEPT !.moving = IF anyFast THEN "rolling" ELSE "idle"],
                        anyFast)
              s2 == IF s1.risRecording THEN rrecordFrame(s1) ELSE s1
              s3 == Sweep(s2, oob)
          IN AfterUpdate(s3, d)
    ELSE AfterUpdate(rupdatePlaybackIndex(s0), d)

\* the bodies the engine can report: balls of the registry, or one that is not
Present(E, s) ==
    {k \in E.kinds : /\ k = "absent" \/ InRegistry(s, k)
                     /\ s.moving = "contact" => k \in RandomColours}

\* the pair sequences of one step: nothing while the engine is idle or the
\* replay runs; a further pair only after one that did not throw
RECURSIVE EventSeqs(_, _, _)
EventSeqs(E, s, n) ==
    IF n = 0 THEN {<< >>}
    ELSE {<< >>}
         \cup UNION {LET r == PocketBody(s, a)
                     IN IF r.thrown THEN {<<a>>}
                        ELSE {<<a>> \o rest : rest \in EventSeqs(E, r.st, n - 1)}
                     : a \in Present(E, s)}

EventChoices(E, s) ==
    IF s.moving = "idle" \/ s.risReplaying THEN {<< >>} ELSE EventSeqs(E, s, E.events)

\* a ball passes the bounds only in a step that leaves a ball fast
SweepChoices(E, s, anyFast) ==
    IF anyFast
    THEN {"none"} \cup {k \in E.oob : InRegistry(s, k)}
    ELSE {"none"}

PointerChoices(s) ==
    IF s.risAiming /\ ~s.risPlacingCueBall /\ s.rcueBall # "null"
         /\ ~s.risShooting /\ ~s.risReplaying
    THEN Dists ELSE {NoPointer}

Draw(E) ==
    \E s0 \in {Fresh(Cur)} :
    \E evs \in EventChoices(E, s0) :
    \E r \in {PocketEvents(s0, evs)} :
    \E anyFast \in (IF moving = "rolling" /\ ~risReplaying /\ ~r.thrown
                        /\ BallCount(r.st.rballs) > 0
                     THEN BOOLEAN ELSE {FALSE}) :
    \E oob \in SweepChoices(E, r.st, anyFast) :
    \E s1 \in {DrawStep(s0, evs, anyFast, oob, NoPointer)} :
    \E d \in PointerChoices(s1) :
    \E s \in {AfterUpdate(s1, d)} :
        InBounds(E, s) /\ Commit(E, s)

(* ---------------- setTimeout callbacks -------------------------------------- *)
\* new Ball(TABLE_WIDTH * 0.2, TABLE_HEIGHT / 2, 'white') of the respawn callback
RespawnCueSpot == [x |-> (TABLE_WIDTH * 2) \div 10, y |-> TABLE_HEIGHT \div 2]

\* variant: the respawn asks for the cue ball to be placed by hand
Respawn_placing(s) ==
    [s EXCEPT !.risPlacingCueBall = TRUE,
              !.rcueBall = "live",
              !.rballs["white"] = @ + 1,
              !.hist.spawn = [on |-> TRUE, x |-> RespawnCueSpot.x, y |-> RespawnCueSpot.y]]

Respawn(s) ==
    [s EXCEPT !.risPlacingCueBall = FALSE,
              !.rcueBall = "live",
              !.rballs["white"] = @ + 1,
              !.hist.spawn = [on |-> TRUE, x |-> RespawnCueSpot.x, y |-> RespawnCueSpot.y]]

\* variant: the callback flips the player and keeps the break
SwitchTurn_keepBreak(s) ==
    [s EXCEPT !.rcurrentPlayer = Other(@),
              !.hist.potSum = 0,
              !.hist.switches = IF @ < 2 THEN @ + 1 ELSE @]

SwitchTurn(s) ==
    [s EXCEPT !.rcurrentPlayer = Other(@),
              !.rcurrentBreak = 0,
              !.hist.potSum = 0,
              !.hist.switches = IF @ < 2 THEN @ + 1 ELSE @]

RespawnTimer(E) ==
    \E i \in Fireable(timers) :
        /\ timers[i] = "respawn"
        /\ \E s \in {Respawn([Fresh(Cur) EXCEPT !.timers = Remove(@, i)])} :
              InBounds(E, s) /\ Commit(E, s)

SwitchTimer(E) ==
    \E i \in Fireable(timers) :
        /\ timers[i] = "switch"
        /\ \E s \in {SwitchTurn([Fresh(Cur) EXCEPT !.timers = Remove(@, i)])} :
              Commit(E, s)

RerackTimer(E) ==
    \E i \in Fireable(timers), mv \in RackContact(rcurrentMode) :
        /\ timers[i] = "rerack"
        /\ \E s \in {rsetupBalls([Fresh(Cur) EXCEPT !.timers = Remove(@, i)],
                                   rcurrentMode, mv)} :
              InBounds(E, s) /\ Commit(E, s)

(* ---------------- input handlers -------------------------------------------- *)
Keys == {"1", "2", "3", "r"}

keyPressed(s0, k, mv) ==
    LET s == [s0 EXCEPT !.hist.key = [on |-> TRUE]] IN
    IF k = "1" THEN rsetupBalls([s EXCEPT !.rcurrentMode = 1], 1, mv)
    ELSE IF k = "2" THEN rsetupBalls([s EXCEPT !.rcurrentMode = 2], 2, mv)
    ELSE IF k = "3" THEN rsetupBalls([s EXCEPT !.rcurrentMode = 3], 3, mv)
    ELSE IF k = "r" THEN rsetupBalls(s, s.rcurrentMode, mv)
    ELSE s

KeyPressed(E) ==
    \E k \in E.keys, mv \in {"idle", "contact"} :
        \E s \in {keyPressed(Fresh(Cur), k, mv)} :
            mv \in RackContact(s.rcurrentMode) /\ InBounds(E, s) /\ Commit(E, s)

\* centre of the D-zone: dZoneX, dZoneY
Kitchen == [x |-> (TABLE_WIDTH * 2) \div 10, y |-> TABLE_HEIGHT \div 2]

\* variant: a press starts aiming whether or not a shot is in flight
mousePressed_anyTime(s0, uiBlock, onTable, inD) ==
    LET s == [s0 EXCEPT !.hist.press = [on |-> TRUE, ui |-> uiBlock,
                                        onTable |-> onTable, inD |-> inD]]
    IN
    IF s.ruiActive \/ uiBlock
    THEN (IF uiBlock THEN [s EXCEPT !.ruiActive = TRUE] ELSE s)
    ELSE IF ~onTable THEN s
    ELSE IF s.risPlacingCueBall
         THEN (IF inD THEN [s EXCEPT !.risPlacingCueBall = FALSE] ELSE s)
    ELSE IF s.rcueBall # "null"
         THEN [s EXCEPT !.risAiming = TRUE]
    ELSE s

\* uiBlock: risUIBlocking(event); onTable: the pointer is on the table plane
\* and within the rails; inD: the point is inside the D-zone
mousePressed(s0, uiBlock, onTable, inD) ==
    LET s == [s0 EXCEPT !.hist.press = [on |-> TRUE, ui |-> uiBlock,
                                        onTable |-> onTable, inD |-> inD]]
    IN
    IF s.ruiActive \/ uiBlock
    THEN (IF uiBlock THEN [s EXCEPT !.ruiActive = TRUE] ELSE s)
    ELSE IF ~onTable THEN s
    ELSE IF s.risPlacingCueBall
         THEN (IF inD /\ s.rcueBall # "null"          \* rcueBall.body throws on null
               THEN [s EXCEPT !.risPlacingCueBall = FALSE] ELSE s)
    ELSE IF ~s.risShooting /\ s.rcueBall # "null"
         THEN [s EXCEPT !.risAiming = TRUE]         \* Cue.startAiming
    ELSE s

MousePressed(E) ==
    \E uiBlock \in (IF E.ui THEN BOOLEAN ELSE {FALSE}), onTable \in BOOLEAN,
       inD \in (IF risPlacingCueBall THEN BOOLEAN ELSE {FALSE}) :
        \E s \in {mousePressed(Fresh(Cur), uiBlock, onTable, inD)} : Commit(E, s)

\* variant: a release fires whether or not the UI is active
mouseReleased_ignoreUI(s0) ==
    LET s == [s0 EXCEPT !.hist.release = [on |-> TRUE, aiming |-> s0.risAiming,
                                          power |-> s0.power]] IN
    IF s.risAiming THEN Shoot(s) ELSE s

mouseReleased(s0) ==
    LET s == [s0 EXCEPT !.hist.release = [on |-> TRUE, aiming |-> s0.risAiming,
                                          power |-> s0.power]] IN
    IF s.risAiming
    THEN (IF ~s.ruiActive THEN Shoot(s)
          ELSE [s EXCEPT !.risAiming = FALSE, !.power = 0])
    ELSE s

MouseReleased(E) ==
    \E s \in {mouseReleased(Fresh(Cur))} : InBounds(E, s) /\ Commit(E, s)

\* variant: leaving STANDARD takes the penalties already awarded back
rtoggleRules_refund(s) ==
    [s EXCEPT !.rgameRulesMode = IF @ = "STANDARD" THEN "BEGINNER" ELSE "STANDARD",
              !.rscores = IF s.rgameRulesMode = "STANDARD"
                          THEN [p \in Players |-> 0] ELSE @]

rtoggleRules(s) ==
    [s EXCEPT !.rgameRulesMode = IF @ = "STANDARD" THEN "BEGINNER" ELSE "STANDARD"]

ToggleRules(E) == \E s \in {rtoggleRules(Fresh(Cur))} : Commit(E, s)

\* isOpening: the rules dropdown was hidden before the toggle
rtoggleRulesDropdown(s, isOpening) == [s EXCEPT !.ruiActive = isOpening]

ToggleRulesDropdown(E) ==
    \E isOpening \in BOOLEAN :
        \E s \in {rtoggleRulesDropdown(Fresh(Cur), isOpening)} : Commit(E, s)

PlayVisualReplay(E) == \E s \in {rplayVisualReplay(Fresh(Cur))} : Commit(E, s)

(* ---------------- specifications ------------------------------------------------ *)
\* the globals as declared, then setup(): rsetupBalls(1) and rcue = new Cue()
Declared ==
    [ rballs |-> NoBalls, rcueBall |-> "null",
      rscores |-> [p \in Players |-> 0], rcurrentPlayer |-> 1,
      rballsPottedThisTurn |-> 0, rcurrentBreak |-> 0, rfoulCommitted |-> FALSE,
      rframesCompleted |-> 0, rtotalShots |-> 0, rcurrentMode |-> 1,
      risAiming |-> FALSE, power |-> 0, risShooting |-> FALSE,
      risPlacingCueBall |-> TRUE, rgameRulesMode |-> "STANDARD",
      ruiActive |-> FALSE, recLen |-> 0, risRecording |-> FALSE,
      risReplaying |-> FALSE, rreplayFrameIndex |-> 0, timers |-> << >>,
      rworld |-> "undefined", moving |-> "idle", hist |-> NoHist ]

\* setup() with nothing thrown: the world is stored and rsetupBalls(1) racks
\* the TRIANGLE
setup == rsetupBalls([Declared EXCEPT !.rworld = "world"], 1, "idle")

Start(s) ==
    /\ rballs = s.rballs
    /\ rcueBall = s.rcueBall
    /\ rscores = s.rscores
    /\ rcurrentPlayer = s.rcurrentPlayer
    /\ rballsPottedThisTurn = s.rballsPottedThisTurn
    /\ rcurrentBreak = s.rcurrentBreak
    /\ rfoulCommitted = s.rfoulCommitted
    /\ rframesCompleted = s.rframesCompleted
    /\ rtotalShots = s.rtotalShots
    /\ rcurrentMode = s.rcurrentMode
    /\ risAiming = s.risAiming
    /\ power = s.power
    /\ risShooting = s.risShooting
    /\ risPlacingCueBall = s.risPlacingCueBall
    /\ rgameRulesMode = s.rgameRulesMode
    /\ ruiActive = s.ruiActive
    /\ recLen = s.recLen
    /\ risRecording = s.risRecording
    /\ risReplaying = s.risReplaying
    /\ rreplayFrameIndex = s.rreplayFrameIndex
    /\ rworld = s.rworld
    /\ timers = s.timers
    /\ moving = s.moving
    /\ hist = s.hist

Init == Start(setup)

\* the rules engine in the TRIANGLE rack: a red, the cue ball and white balls
\* the cue-ball reference has lost are pocketed
Rules == [Base EXCEPT !.watch = {"res", "ev", "shooter", "oppGain", "cuePots"}]

Next ==
    \/ Draw(Rules)
    \/ RespawnTimer(Rules)
    \/ SwitchTimer(Rules)
    \/ KeyPressed(Rules)
    \/ MousePressed(Rules)
    \/ MouseReleased(Rules)
    \/ ToggleRules(Rules)

Spec == Init /\ [][Next]_vars

\* the TRIANGLE and RANDOM racks with the whole history of the shot in hand,
\* two shots and two pairs in one collisionStart event
ShotEvents == 2
ShotShots  == 2

Shot == [Base EXCEPT !.keys = {"r", "2"},
                     !.kinds = {"red", "blue", "cue", "white"},
                     !.watch = DOMAIN NoHist \ {"req", "press", "release", "key", "banked", "tick"},
                     !.events = ShotEvents, !.shots = ShotShots]

NextShot ==
    \/ Draw(Shot)
    \/ RespawnTimer(Shot)
    \/ SwitchTimer(Shot)
    \/ KeyPressed(Shot)
    \/ MousePressed(Shot)
    \/ MouseReleased(Shot)
    \/ ToggleRules(Shot)

SpecShot == Init /\ [][NextShot]_vars

\* the end of a PRACTICE frame: after key '3', every red but one was potted
\* by a full-power shot that came to rest in the tick of the pot
FrameFrames == 2
FrameTimers == 3
FrameShots  == 6

Frame == [Base EXCEPT !.keys = {}, !.kinds = {"red"}, !.oob = {"cue"},
                      !.watch = {"res"},
                      !.gone = PracticeReds, !.frames = FrameFrames,
                      !.timers = FrameTimers, !.shots = FrameShots]

PotShot(s) ==
    LET aimed == CueUpdate(mousePressed(Fresh(s), FALSE, TRUE, FALSE), 300)
    IN Fresh(DrawStep(mouseReleased(aimed), <<"red">>, FALSE, "none", NoPointer))

RECURSIVE PotShots(_, _)
PotShots(s, n) == IF n = 0 THEN s ELSE PotShots(PotShot(s), n - 1)

LateFrame ==
    PotShots(keyPressed(setup, "3", "idle"), PracticeReds - 1)

InitFrame == Start([LateFrame EXCEPT !.hist = Watched(Frame, @)])

NextFrame ==
    \/ Draw(Frame)
    \/ SwitchTimer(Frame)
    \/ RerackTimer(Frame)
    \/ MousePressed(Frame)
    \/ MouseReleased(Frame)

SpecFrame == InitFrame /\ [][NextFrame]_vars

\* rack resets in a match that has completed a frame: the PRACTICE frame was
\* completed, its re-rack ran and key '1' racked the TRIANGLE
Reracked ==
    LET done == Fresh(PotShot(LateFrame))
    IN rsetupBalls([done EXCEPT !.timers = << >>], done.rcurrentMode, "idle")

AfterFrame == Fresh(keyPressed(Reracked, "1", "idle"))

Racks == [Base EXCEPT !.keys = {"2", "3", "r"}, !.kinds = {"red", "cue"},
                      !.watch = {"ev", "rack", "spawn"}]

InitRack == Start([AfterFrame EXCEPT !.hist = Watched(Racks, @)])

NextRack ==
    \/ Draw(Racks)
    \/ RespawnTimer(Racks)
    \/ SwitchTimer(Racks)
    \/ KeyPressed(Racks)
    \/ MousePressed(Racks)
    \/ MouseReleased(Racks)
    \/ ToggleRules(Racks)

SpecRack == InitRack /\ [][NextRack]_vars

\* the three deferred callbacks in the PRACTICE rack, where one shot can pot
\* every red and the cue ball in one step of the engine, with rack resets
\* while they are pending
Timers == [Base EXCEPT !.kinds = {"red", "cue"}, !.watch = {"rack"},
                       !.events = PracticeReds + 1, !.gone = PracticeReds]

Practice == Fresh(keyPressed(setup, "3", "idle"))

InitTimers == Start([Practice EXCEPT !.hist = Watched(Timers, @)])

NextTimers ==
    \/ Draw(Timers)
    \/ RespawnTimer(Timers)
    \/ SwitchTimer(Timers)
    \/ RerackTimer(Timers)
    \/ KeyPressed(Timers)
    \/ MousePressed(Timers)
    \/ MouseReleased(Timers)

SpecTimers == InitTimers /\ [][NextTimers]_vars

\* shots, their recording and its replay in the TRIANGLE rack
Replay == [Base EXCEPT !.kinds = {"red"}, !.watch = {"req", "res", "ev", "stale"}]

NextReplay ==
    \/ Draw(Replay)
    \/ SwitchTimer(Replay)
    \/ KeyPressed(Replay)
    \/ MousePressed(Replay)
    \/ MouseReleased(Replay)
    \/ PlayVisualReplay(Replay)

SpecReplay == Init /\ [][NextReplay]_vars

\* one rack with no reset, where p5 calls draw() for every frame
NextPlayback ==
    \/ Draw(Replay)
    \/ SwitchTimer(Replay)
    \/ MousePressed(Replay)
    \/ MouseReleased(Replay)
    \/ ToggleRules(Replay)
    \/ PlayVisualReplay(Replay)

SpecPlayback == Init /\ [][NextPlayback]_vars /\ WF_vars(Draw(Replay))

\* presses on UI surfaces and the rules dropdown opening and closing
UI == [Base EXCEPT !.kinds = {"red"}, !.ui = TRUE, !.watch = {"press", "release"}]

NextUI ==
    \/ Draw(UI)
    \/ SwitchTimer(UI)
    \/ KeyPressed(UI)
    \/ MousePressed(UI)
    \/ MouseReleased(UI)
    \/ ToggleRulesDropdown(UI)

SpecUI == Init /\ [][NextUI]_vars

(* ---------------- the scores against what was pocketed ----------------------- *)
\* the TRIANGLE rack with the account of what the pocket events were due
Score == [Base EXCEPT !.watch = {"banked"}]

NextScore ==
    \/ Draw(Score)
    \/ RespawnTimer(Score)
    \/ SwitchTimer(Score)
    \/ KeyPressed(Score)
    \/ MousePressed(Score)
    \/ MouseReleased(Score)
    \/ ToggleRules(Score)

SpecScore == Init /\ [][NextScore]_vars

(* ---------------- shots released with no power --------------------------------- *)
\* the TRIANGLE and RANDOM racks with what each release fired and what the
\* tick after it resolved
Soft == [Base EXCEPT !.keys = {"2"}, !.kinds = {"blue"},
                     !.watch = {"release", "res", "tick"}]

NextSoft ==
    \/ Draw(Soft)
    \/ SwitchTimer(Soft)
    \/ KeyPressed(Soft)
    \/ MousePressed(Soft)
    \/ MouseReleased(Soft)

SpecSoft == Init /\ [][NextSoft]_vars

(* ---------------- pocket events for bodies outside the registry -------------- *)
\* the engine reports, besides the reds, bodies that rballs does not hold: a
\* ball the handler removed earlier, reported again
Dup == [Base EXCEPT !.kinds = {"red", "absent"}, !.watch = {"ev"},
                    !.events = ShotEvents]

NextDup ==
    \/ Draw(Dup)
    \/ SwitchTimer(Dup)
    \/ KeyPressed(Dup)
    \/ MousePressed(Dup)
    \/ MouseReleased(Dup)

SpecDup == Init /\ [][NextDup]_vars

\* C29: a pocket event for a body that the registry does not hold changes
\* nothing: scores, break, potted count, foul flag, registry and pending
\* respawns are as they were, and nothing is thrown.
C29_AbsentNoOp ==
    \A i \in DOMAIN hist.ev :
        hist.ev[i].kind = "absent" =>
            /\ hist.ev[i].same
            /\ hist.ev[i].selfGain = 0 /\ hist.ev[i].oppGain = 0
            /\ hist.ev[i].brkGain = 0 /\ hist.ev[i].potGain = 0
            /\ hist.ev[i].removed = 0 /\ hist.ev[i].respawns = 0
            /\ ~hist.ev[i].threw

\* a red is pocketed and its body is reported once more in the same tick: the
\* red has scored once
C29_Witness ==
    /\ Len(hist.ev) = 2
    /\ hist.ev[1].kind = "red" /\ hist.ev[1].removed = 1
    /\ hist.ev[2].kind = "absent"
    /\ rscores[1] = 1 /\ rballsPottedThisTurn = 1

(* ---------------- after a failed initialisation ------------------------------ *)
\* setup() left through its catch (an exception inside the try block before
\* rsetupBalls(1) has run, as when the canvas cannot be created or gravity is
\* read from an undefined world): rshowError has shown the error screen, and
\* every global still holds the value of its declaration.
Failed == Declared

Fatal == [Base EXCEPT !.keys = Keys, !.kinds = {}, !.ui = TRUE,
                      !.watch = {"press", "release", "key"},
                      !.gone = ObjectCount(Rack(1))]

InitFatal == Start(Failed)

NextFatal ==
    \/ Draw(Fatal)
    \/ KeyPressed(Fatal)
    \/ MousePressed(Fatal)
    \/ MouseReleased(Fatal)
    \/ ToggleRules(Fatal)
    \/ ToggleRulesDropdown(Fatal)

SpecFatal == InitFatal /\ [][NextFatal]_vars

\* C28: while the cue ball is being placed, a press on the table outside the
\* D-zone changes nothing, a press inside the D-zone ends the placing, and no
\* such press starts aiming.
C28_PlacingPress ==
    [][hist'.press.on /\ risPlacingCueBall /\ ~ruiActive /\ ~hist'.press.ui
         /\ hist'.press.onTable =>
            /\ ~risAiming'
            /\ hist'.press.inD => ~risPlacingCueBall'
            /\ ~hist'.press.inD => UNCHANGED globals]_vars

(* ---------------- steps seen from the state -------------------------------------- *)
\* the points the pocket events of one step credited, to either player
RECURSIVE EventGains(_)
EventGains(evs) ==
    IF evs = << >> THEN 0
    ELSE Head(evs).selfGain + Head(evs).oppGain + EventGains(Tail(evs))

\* a pending callback of the kind ran in this step
Fired(kind) ==
    \E i \in DOMAIN timers : timers[i] = kind /\ timers' = Remove(timers, i)

Pending(kind) == \E i \in DOMAIN timers : timers[i] = kind

\* the callback of the kind took effect in this step
Ran(kind) ==
    CASE kind = "respawn" ->
            /\ rballs' = [rballs EXCEPT !["white"] = @ + 1]
            /\ rcueBall' = "live" /\ ~risPlacingCueBall'
      [] kind = "switch" ->
            rcurrentPlayer' = Other(rcurrentPlayer) /\ rcurrentBreak' = 0
      [] kind = "rerack" ->
            /\ rballs' = Rack(rcurrentMode) /\ rcurrentMode' = rcurrentMode
            /\ rscores' = [p \in Players |-> 0] /\ rtotalShots' = 0

IsPrefix(q, r) == Len(q) <= Len(r) /\ \A j \in DOMAIN q : r[j] = q[j]

\* rsetupBalls ran in this step
RackReset ==
    /\ rscores' = [p \in Players |-> 0]
    /\ rtotalShots' = 0
    /\ rballs' = Rack(rcurrentMode')

\* Cue.shoot fired a shot in this step
ShotFired == rtotalShots' = rtotalShots + 1

(* ---------------- C1 ---------------------------------------------------------------- *)
\* C1 as stated: a shot that pocketed the cue ball and rests with the foul flag set
\* resolves as FOUL with a turn switch, and over the whole shot the shooter's
\* opponent gained exactly 4 if the rules mode is STANDARD and 0 if it is BEGINNER.
C1_WholeShotPenalty ==
    hist.res.on /\ hist.res.case = "foul" /\ hist.res.cuePots > 0 =>
        /\ hist.res.outcome = "FOUL"
        /\ hist.res.switch
        /\ hist.res.oppGain = (IF hist.res.mode = "STANDARD" THEN 4 ELSE 0)

\* C1 amended: a shot that rests with the foul flag set resolves as FOUL and
\* schedules the turn switch in both rules modes; every cue-ball pocket event
\* sets the foul flag and credits exactly 4 to the opponent of the player active
\* at that event if the rules mode at that event is STANDARD, nothing otherwise,
\* and never credits the active player.
C1_FoulPenalty ==
    /\ hist.res.on /\ hist.res.case = "foul" =>
          hist.res.outcome = "FOUL" /\ hist.res.switch
    /\ \A i \in DOMAIN hist.ev :
          hist.ev[i].kind = "cue" =>
              /\ hist.ev[i].foul
              /\ hist.ev[i].selfGain = 0
              /\ hist.ev[i].oppGain = (IF hist.ev[i].mode = "STANDARD" THEN 4 ELSE 0)

\* a foul came to rest in BEGINNER mode with no point on the board
C1_Witness ==
    /\ hist.res.on /\ hist.res.case = "foul" /\ hist.res.mode = "BEGINNER"
    /\ hist.res.outcome = "FOUL" /\ hist.res.switch
    /\ rscores = [p \in Players |-> 0]

(* ---------------- C2 ---------------------------------------------------------------- *)
\* C2: a shot that rests with nothing potted and no foul resolves as MISS and
\* schedules the turn switch, and the turn switch, when it runs, makes the
\* other player active (1 to 2, 2 to 1).
C2_MissSwitches ==
    /\ [](hist.res.on /\ hist.res.case = "nopot" =>
            hist.res.outcome = "MISS" /\ hist.res.switch)
    /\ [][Fired("switch") => rcurrentPlayer' = Other(rcurrentPlayer)]_vars

\* a MISS was resolved and its turn switch is pending
C2_Witness ==
    /\ hist.res.on /\ hist.res.case = "nopot" /\ hist.res.outcome = "MISS"
    /\ hist.res.switch /\ Pending("switch")

(* ---------------- C3 ---------------------------------------------------------------- *)
\* C3: a shot that rests with a pot and no foul resolves as GOOD_POT, the active
\* player is the player who fired it, no turn switch is scheduled, and the break
\* equals the values potted since the break was last reset.
C3_GoodPotKeepsTurn ==
    hist.res.on /\ hist.res.case = "pot" =>
        /\ hist.res.outcome = "GOOD_POT"
        /\ ~hist.res.switch
        /\ hist.res.player = hist.res.shooter
        /\ hist.res.brk = hist.res.potSum

(* ---------------- C4 ---------------------------------------------------------------- *)
\* C4: every pocket event of an object ball of the registry adds the colour's
\* value to the active player's score and to the break, adds 1 to the potted
\* count, removes one ball and leaves the other player's score alone.
C4_PotCredits ==
    \A i \in DOMAIN hist.ev :
        hist.ev[i].kind \in ObjectColors =>
            /\ hist.ev[i].selfGain = Value(hist.ev[i].kind)
            /\ hist.ev[i].brkGain = Value(hist.ev[i].kind)
            /\ hist.ev[i].potGain = 1
            /\ hist.ev[i].removed = 1
            /\ hist.ev[i].oppGain = 0

(* ---------------- C5 ---------------------------------------------------------------- *)
\* C5: since the last firing, rest resolution ran at most once and the active
\* player was switched at most once, and no cue-ball pocket event credited
\* more than one penalty.
C5_OncePerShot ==
    /\ hist.resolved <= 1
    /\ hist.switches <= 1
    /\ \A i \in DOMAIN hist.ev : hist.ev[i].kind = "cue" => hist.ev[i].oppGain <= 4

(* ---------------- C6 ---------------------------------------------------------------- *)
\* C6: whenever a shot is fired, the potted count is 0 and the foul flag is clear.
C6_CleanAtFire ==
    [][ShotFired => rballsPottedThisTurn = 0 /\ ~rfoulCommitted]_vars

(* ---------------- C7 ---------------------------------------------------------------- *)
\* C7 as stated: the break is 0 after every change of the active player, and a
\* step that takes the break from a positive value to 0 changes the active player.
C7_OnlyOnSwitch ==
    [][ /\ rcurrentPlayer' # rcurrentPlayer => rcurrentBreak' = 0
        /\ rcurrentBreak > 0 /\ rcurrentBreak' = 0 => rcurrentPlayer' # rcurrentPlayer
      ]_vars

\* C7 amended: the break is 0 after every change of the active player, and a
\* step that takes the break from a positive value to 0 changes the active
\* player or is a rack reset.
C7_SwitchOrReset ==
    [][ /\ rcurrentPlayer' # rcurrentPlayer => rcurrentBreak' = 0
        /\ rcurrentBreak > 0 /\ rcurrentBreak' = 0 =>
              rcurrentPlayer' # rcurrentPlayer \/ RackReset
      ]_vars

\* player 1 scored and the turn went to player 2 with the break back at 0
C7_Witness ==
    /\ rcurrentPlayer = 2 /\ rcurrentBreak = 0
    /\ rscores[1] > 0 /\ rscores[2] = 0 /\ rtotalShots > 0

(* ---------------- C8 ---------------------------------------------------------------- *)
\* C8: a shot that pocketed the cue ball and rests with a pot counted resolves as
\* FOUL with a turn switch, the shooter's opponent gained 4 if the rules mode is
\* STANDARD, and the break is not above its value when the shot was fired.
C8_FoulOverridesPot ==
    hist.res.on /\ hist.res.cuePots > 0 /\ hist.res.potted > 0 =>
        /\ hist.res.outcome = "FOUL"
        /\ hist.res.switch
        /\ hist.res.mode = "STANDARD" => hist.res.oppGain = 4
        /\ hist.res.brk <= hist.res.fireBrk

(* ---------------- C9 ---------------------------------------------------------------- *)
\* C9: the registry never holds more than one white ball, and holds exactly one
\* whenever no cue-ball respawn is pending.
C9_OneWhite ==
    /\ rballs["white"] <= 1
    /\ ~Pending("respawn") => rballs["white"] = 1

(* ---------------- C10 --------------------------------------------------------------- *)
\* C10: frames-completed moves by single increments, each of which schedules a
\* re-rack; the re-rack resets the rack of the current mode and zeroes both
\* scores; and frames-completed does not move while a re-rack is pending.
C10_OneFramePerRack ==
    [][ /\ rframesCompleted' \in {rframesCompleted, rframesCompleted + 1}
        /\ rframesCompleted' # rframesCompleted =>
              timers' = Append(timers, "rerack") \/
              (Len(timers') = Len(timers) + 2 /\ timers'[Len(timers')] = "rerack")
        /\ Fired("rerack") => RackReset
        /\ Pending("rerack") => rframesCompleted' = rframesCompleted
      ]_vars

(* ---------------- C11 --------------------------------------------------------------- *)
\* C11: a rest resolution that declares the frame complete leaves exactly one
\* ball in the registry, the cue ball rcueBall refers to, and no object ball.
C11_FrameOnlyCueLeft ==
    hist.res.on /\ hist.res.framed =>
        /\ ObjectCount(rballs) = 0
        /\ rballs["white"] = 1
        /\ rcueBall = "live"

(* ---------------- C12 --------------------------------------------------------------- *)
\* C12: a rack reset leaves both scores 0, player 1 active, the potted count 0,
\* the foul flag false, the break 0 and the shot count 0, and leaves the
\* frames-completed counter and the rules mode as it found them.
C12_ResetZeroes ==
    hist.rack.on =>
        /\ rscores = [p \in Players |-> 0]
        /\ rcurrentPlayer = 1
        /\ rballsPottedThisTurn = 0
        /\ rfoulCommitted = FALSE
        /\ rcurrentBreak = 0
        /\ rtotalShots = 0
        /\ rframesCompleted = hist.rack.frames
        /\ rgameRulesMode = hist.rack.rules

\* a rack was reset in BEGINNER mode in a match with a completed frame
C12_Witness ==
    /\ hist.rack.on /\ hist.rack.frames = 1 /\ hist.rack.rules = "BEGINNER"
    /\ rframesCompleted = 1 /\ rgameRulesMode = "BEGINNER" /\ rtotalShots = 0

(* ---------------- C13 --------------------------------------------------------------- *)
\* C13: right after a rack reset the registry holds one white ball, created at
\* the kitchen position and referred to by rcueBall, and the object balls of
\* the mode and no other ball: TRIANGLE 15 reds and one of each of the six
\* colours (22 balls), RANDOM 10 reds and 2 colours, PRACTICE 5 reds.
C13_RackOfMode ==
    hist.rack.on =>
        /\ rcurrentMode = hist.rack.mode
        /\ rballs["white"] = 1 /\ rcueBall = "live"
        /\ hist.rack.x = Kitchen.x /\ hist.rack.y = Kitchen.y
        /\ hist.rack.mode = 1 =>
              /\ rballs["red"] = 1 + 2 + 3 + 4 + 5
              /\ \A c \in ObjectColors \ {"red"} : rballs[c] = 1
              /\ BallCount(rballs) = 22
        /\ hist.rack.mode = 2 =>
              /\ rballs["red"] = 10
              /\ ObjectCount(rballs) = 12
              /\ BallCount(rballs) = 13
        /\ hist.rack.mode = 3 =>
              /\ rballs["red"] = 5
              /\ ObjectCount(rballs) = 5
              /\ BallCount(rballs) = 6

\* the TRIANGLE rack was replaced by the PRACTICE rack: no colour is left
C13_Witness ==
    /\ hist.rack.on /\ hist.rack.mode = 3
    /\ BallCount(rballs) = 6 /\ rballs["red"] = 5 /\ rballs["blue"] = 0

(* ---------------- C14 --------------------------------------------------------------- *)
\* C14: while a shot is in flight (risShooting) the cue is never aiming, no
\* step starts aiming and no step fires a second shot.
C14_OneShotInFlight ==
    /\ [](~(risShooting /\ risAiming))
    /\ [][risShooting => ~ShotFired /\ ~risAiming']_vars

\* a shot is in flight and the cue is not aiming
C14_Witness == risShooting /\ ~risAiming /\ rtotalShots = 1 /\ moving = "rolling"

(* ---------------- C15 --------------------------------------------------------------- *)
\* C15: a step taken while the cue is not aiming fires nothing: it neither
\* enters shot-in-flight nor starts a recording nor counts a shot. A step that
\* enters shot-in-flight was taken while aiming, adds exactly 1 to the shot
\* count, starts an empty recording and ends aiming with power 0. The shot
\* count changes in no other way than by a rack reset, which zeroes it.
C15_FiringNeedsAiming ==
    [][ /\ ~risAiming =>
              /\ risShooting' => risShooting
              /\ risRecording' => risRecording
              /\ rtotalShots' = rtotalShots \/ RackReset
              /\ recLen' >= recLen
        /\ ~risShooting /\ risShooting' =>
              /\ risAiming /\ ~risAiming' /\ power' = 0
              /\ rtotalShots' = rtotalShots + 1
              /\ risRecording' /\ recLen' = 0
        /\ rtotalShots' # rtotalShots =>
              \/ ~risShooting /\ risShooting' /\ rtotalShots' = rtotalShots + 1
              \/ RackReset /\ rtotalShots' = 0
      ]_vars

\* a shot was fired with power on the cue and is the only shot counted
C15_Witness ==
    /\ risShooting /\ risRecording /\ ~risAiming /\ power = 0
    /\ rtotalShots = 1 /\ hist.shooter = 1

C17_NoShotBeforeRespawn ==
    [][Pending("respawn") => ~(~risShooting /\ risShooting' /\ ShotFired)]_vars

(* ---------------- C18 --------------------------------------------------------------- *)
\* C18: a pocket event of the cue ball sets the foul flag, takes one ball out
\* of the registry and schedules one respawn, and the step leaves rcueBall
\* null with the respawn pending; the respawn, when it runs, adds one white
\* ball created at the kitchen position, makes it the cue ball and leaves the
\* controller out of the placing state.
C18_CuePotRespawns ==
    /\ [](\A i \in DOMAIN hist.ev :
            hist.ev[i].kind = "cue" =>
                /\ hist.ev[i].foul /\ hist.ev[i].removed = 1 /\ hist.ev[i].respawns = 1
                /\ rfoulCommitted /\ rcueBall = "null" /\ Pending("respawn"))
    /\ [](hist.spawn.on =>
            /\ hist.spawn.x = Kitchen.x /\ hist.spawn.y = Kitchen.y
            /\ rcueBall = "live" /\ ~risPlacingCueBall)
    /\ [][Fired("respawn") =>
            /\ hist'.spawn.on
            /\ rballs' = [rballs EXCEPT !["white"] = @ + 1]]_vars

\* the respawn of a pocketed cue ball ran before the foul was resolved
C18_Witness ==
    /\ hist.spawn.on /\ rcueBall = "live" /\ rballs["white"] = 1
    /\ rfoulCommitted /\ risShooting /\ ~risPlacingCueBall

(* ---------------- C19 --------------------------------------------------------------- *)
\* C19: the shot-in-flight flag is cleared only by the rest resolution of the
\* shot: a step that takes risShooting from true to false ran a rest resolution.
C19_ClearedOnlyAtRest ==
    [][risShooting /\ ~risShooting' => hist'.res.on]_vars

(* ---------------- C20 --------------------------------------------------------------- *)
\* C20: scores are never negative and no step lowers a score unless it resets
\* the rack; a pocket event of a fired shot credits a player other than the
\* one who fired it only with the 4 points of a cue-ball foul in STANDARD mode.
C20_ScoresOnlyGrow ==
    /\ [](\A p \in Players : rscores[p] >= 0)
    /\ [][(\A p \in Players : rscores'[p] >= rscores[p]) \/ RackReset]_vars
    /\ [](hist.shooter # 0 =>
            \A i \in DOMAIN hist.ev :
                LET e == hist.ev[i]
                    toOther == IF e.player = hist.shooter THEN e.oppGain ELSE e.selfGain
                IN \/ toOther = 0
                   \/ toOther = 4 /\ e.kind = "cue" /\ e.mode = "STANDARD")

(* ---------------- C21 --------------------------------------------------------------- *)
\* C21: a pocket event that takes a white ball out of the registry adds nothing
\* to the active player's score and nothing to the break, and leaves the foul
\* flag set.
C21_WhiteNeverScores ==
    \A i \in DOMAIN hist.ev :
        EventColor(hist.ev[i].kind) = "white" /\ hist.ev[i].removed = 1 =>
            /\ hist.ev[i].selfGain = Value("white")
            /\ hist.ev[i].brkGain = Value("white")
            /\ hist.ev[i].foul

(* ---------------- C22 --------------------------------------------------------------- *)
\* C22: a step that changes the rules mode flips it between STANDARD and
\* BEGINNER and changes nothing else: scores, active player, break, potted
\* count, foul flag, frames completed, shot count, the registry, the cue-ball
\* reference and the pending callbacks are as before.
C22_ToggleOnlyMode ==
    [][rgameRulesMode' # rgameRulesMode =>
          /\ {rgameRulesMode, rgameRulesMode'} = {"STANDARD", "BEGINNER"}
          /\ UNCHANGED <<rscores, rcurrentPlayer, rcurrentBreak, rballsPottedThisTurn,
                         rfoulCommitted, rframesCompleted, rtotalShots, rballs,
                         rcueBall, timers, rcurrentMode, risShooting, risAiming,
                         power, risPlacingCueBall, recLen, risRecording,
                         risReplaying, rreplayFrameIndex>>
      ]_vars

\* the rules mode was toggled to BEGINNER with a 4-point penalty on the board
C22_Witness ==
    /\ rgameRulesMode = "BEGINNER" /\ rscores[2] = 4 /\ hist.ev = << >>

(* ---------------- C23 --------------------------------------------------------------- *)
\* C23: a replay request made while the recording is empty, a shot is in
\* flight or a replay is running is rejected and changes no global: the
\* replaying flag, the replay index, the recording and the match state are
\* as before.
C23_ReplayRejected ==
    [][hist'.req.on /\ (recLen = 0 \/ risShooting \/ risReplaying) =>
          ~hist'.req.ok /\ UNCHANGED globals]_vars

\* a request was rejected after a shot that came to rest in its first tick
\* and recorded no frame
C23_Witness ==
    /\ hist.req.on /\ ~hist.req.ok
    /\ recLen = 0 /\ rtotalShots = 1 /\ ~risShooting /\ ~risReplaying

(* ---------------- C24 --------------------------------------------------------------- *)
\* C24: an accepted request starts the replay at index 0; while the replay
\* runs the index only moves forward by one, to a frame of the recording or
\* just past the last one, and the flag is cleared only with the index at the
\* end of the recording; no step taken while it runs handles a pocket event,
\* resolves a shot or records a frame; and a replay always comes to its end.
C24_ReplayTerminates ==
    /\ [](hist.req.on /\ hist.req.ok => risReplaying /\ rreplayFrameIndex = 0)
    /\ [][risReplaying =>
            /\ rreplayFrameIndex' # rreplayFrameIndex =>
                  /\ rreplayFrameIndex' = rreplayFrameIndex + 1
                  /\ rreplayFrameIndex < recLen /\ risReplaying'
            /\ ~risReplaying' =>
                  rreplayFrameIndex >= recLen /\ rreplayFrameIndex' = rreplayFrameIndex
            /\ hist'.ev = << >> /\ ~hist'.res.on
            /\ recLen' <= recLen
          ]_vars
    /\ risReplaying ~> ~risReplaying

\* the replay of a one-frame recording has shown its frame
C24_Witness ==
    risReplaying /\ recLen = 1 /\ rreplayFrameIndex = 1 /\ ~risShooting

(* ---------------- C25 --------------------------------------------------------------- *)
\* C25: the recording flag is set exactly while a shot is in flight: it is
\* never set with no shot in flight and never clear with one in flight.
C25_RecordingIffInFlight == risRecording <=> risShooting

C27_UIBlocks ==
    [][ /\ hist'.press.on /\ (hist'.press.ui \/ ruiActive) =>
              /\ risAiming' = risAiming
              /\ rtotalShots' = rtotalShots /\ risShooting' = risShooting
        /\ hist'.release.on /\ ruiActive =>
              /\ ~risAiming' /\ power' = 0
              /\ rtotalShots' = rtotalShots /\ risShooting' = risShooting
              /\ risRecording' = risRecording /\ recLen' = recLen
      ]_vars

\* an aim was cancelled by a release while the UI was active
C27_Witness ==
    /\ hist.release.on /\ hist.release.aiming /\ ruiActive
    /\ ~risAiming /\ power = 0 /\ rtotalShots = 0 /\ ~risShooting

\* C30: after a failed initialisation no key press, mouse press or release
\* changes the match state (scores, active player, potted count, break, foul
\* flag, frames, shots, rack mode, rules mode) or the ball registry.
C30_FatalHalts ==
    [][hist'.key.on \/ hist'.press.on \/ hist'.release.on =>
          UNCHANGED <<rballs, rcueBall, rscores, rcurrentPlayer,
                      rballsPottedThisTurn, rcurrentBreak, rfoulCommitted,
                      rframesCompleted, rtotalShots, rcurrentMode,
                      rgameRulesMode>>]_vars

(* ---------------- C31 --------------------------------------------------------------- *)
\* C31 as stated: the penalty is an effect of rest resolution: the pocket event
\* of the cue ball credits nothing to the opponent, and a shot resolved as FOUL
\* in BEGINNER mode has credited nothing to the shooter's opponent.
C31_PenaltyAtRest ==
    /\ \A i \in DOMAIN hist.ev :
          hist.ev[i].kind = "cue" => hist.ev[i].oppGain = 0
    /\ hist.res.on /\ hist.res.outcome = "FOUL" /\ hist.res.mode = "BEGINNER" =>
          hist.res.oppGain = 0

\* C31 amended: the penalty is an effect of the cue ball's pocket event, decided
\* by the rules mode in force at that event (4 to the opponent of the active
\* player in STANDARD, nothing in BEGINNER); the scores change only by what the
\* pocket events of a step credit or by a rack reset, so rest resolution
\* credits nothing in either mode.
C31_PenaltyAtPocket ==
    /\ [](\A i \in DOMAIN hist.ev :
            hist.ev[i].kind = "cue" =>
                hist.ev[i].oppGain = (IF hist.ev[i].mode = "STANDARD" THEN 4 ELSE 0))
    /\ [][IF hist'.ev # << >>
          THEN (rscores'[1] + rscores'[2]) - (rscores[1] + rscores[2])
                   = EventGains(hist'.ev)
          ELSE rscores' = rscores \/ RackReset]_vars

\* a foul was resolved in BEGINNER mode after its cue-ball pot, handled in
\* STANDARD mode, had credited 4 to the opponent
C31_Witness ==
    /\ hist.res.on /\ hist.res.outcome = "FOUL" /\ hist.res.mode = "BEGINNER"
    /\ hist.res.cuePots = 1 /\ hist.res.oppGain = 4
    /\ rscores[2] = 4 /\ hist.ev = << >>

(* ---------------- C32 --------------------------------------------------------------- *)
\* C32: a pocket event that takes a ball out of the registry is handled only
\* while a shot is in flight, so none falls between the resolution of a shot
\* and the firing of the next; and a rest resolution comes after the pocket
\* events of its tick: it has cleared the potted count and the foul flag that
\* those events had raised.
C32_EventsWithinShot ==
    /\ [][(\E i \in DOMAIN hist'.ev : hist'.ev[i].removed = 1) => risShooting]_vars
    /\ [](hist.res.on => rballsPottedThisTurn = 0 /\ ~rfoulCommitted)

(* ---------------- C33 --------------------------------------------------------------- *)
\* C33: a rest resolution runs only with the cue ball on the table: in the
\* state it leaves, rcueBall refers to a white ball of the registry.
C33_RestNeedsCueBall ==
    hist.res.on => rcueBall = "live" /\ rballs["white"] >= 1

(* ---------------- C34 --------------------------------------------------------------- *)
\* C34: while the replaying flag is set no step fires a shot, no step changes
\* the recording, and a step clears the flag only with the replay index at or
\* past the end of the recording.
C34_ReplayUndisturbed ==
    [][risReplaying =>
          /\ ~ShotFired /\ ~(~risShooting /\ risShooting')
          /\ recLen' = recLen
          /\ ~risReplaying' => rreplayFrameIndex >= recLen
      ]_vars

(* ---------------- C35 --------------------------------------------------------------- *)
\* C35: while a turn switch is pending no step fires a shot, and every pocket
\* event of a fired shot is handled with the player who fired it active.
C35_NoShotBeforeSwitch ==
    /\ [][Pending("switch") => ~ShotFired]_vars
    /\ [](hist.shooter # 0 /\ risShooting =>
            \A i \in DOMAIN hist.ev : hist.ev[i].player = hist.shooter)

(* ---------------- C36 --------------------------------------------------------------- *)
\* C36: a callback that was pending when the rack was reset has no effect when
\* it runs: the step that runs it right after the reset leaves player 1
\* active and the scores, the registry and the cue-ball reference as the
\* reset left them.
C36_ResetIsolates ==
    [][hist.rack.on /\ (Fired("switch") \/ Fired("respawn") \/ Fired("rerack")) =>
          /\ rcurrentPlayer' = 1
          /\ rscores' = rscores
          /\ rballs' = rballs
          /\ rcueBall' = rcueBall
      ]_vars

(* ---------------- C37 --------------------------------------------------------------- *)
\* C37: a cue-ball reference that is not null names a white ball of the
\* registry, and while the reference is null a respawn is pending, which
\* re-creates the cue ball.
C37_CueRefInRegistry ==
    /\ rcueBall # "null" => rcueBall = "live" /\ rballs["white"] >= 1
    /\ rcueBall = "null" => Pending("respawn")

(* ---------------- C38 --------------------------------------------------------------- *)
\* C38: the two scores add up to the values of the object balls pocketed since
\* the last rack reset plus 4 for each cue-ball pot handled in STANDARD mode
\* since that reset.
C38_ScoreConservation == rscores[1] + rscores[2] = hist.banked

(* ---------------- C39 --------------------------------------------------------------- *)
\* C39: a release with the cue aiming at power 0 fires a shot: it adds 1 to
\* the shot count, enters shot-in-flight with an empty recording and sets no
\* ball in motion; and the tick that follows it resolves the shot as MISS,
\* schedules the turn switch and has recorded no frame.
C39_ZeroPowerShot ==
    /\ [][hist'.release.on /\ hist'.release.aiming /\ hist'.release.power = 0
            /\ ~ruiActive /\ rcueBall # "null" =>
              /\ rtotalShots' = rtotalShots + 1
              /\ risShooting' /\ recLen' = 0
              /\ moving' = moving]_vars
    /\ [][hist.release.on /\ hist.release.aiming /\ hist.release.power = 0
            /\ risShooting /\ hist'.tick =>
              /\ hist'.res.on /\ hist'.res.outcome = "MISS" /\ hist'.res.switch
              /\ ~risShooting' /\ recLen' = 0]_vars

(* ---------------- C40 --------------------------------------------------------------- *)
\* C40: a rack reset of mode 1 creates 22 balls, no two of them at the same
\* position.
C40_DistinctSpots ==
    hist.rack.on /\ hist.rack.mode = 1 =>
        /\ Len(hist.rack.balls) = 22
        /\ \A a, b \in DOMAIN hist.rack.balls :
              a # b => <<hist.rack.balls[a].x, hist.rack.balls[a].y>>
                         # <<hist.rack.balls[b].x, hist.rack.balls[b].y>>

====
